---- MODULE Spec2Model ----
(***************************************************************************)
(* Model of mrna_bench's sharded embedding pipeline: DatasetEmbedder      *)
(* (shard selection, embed_dataset, persist_embeddings, merge_embeddings) *)
(* and the artifact naming scheme get_output_filename.                     *)
(*                                                                         *)
(* Strings are sequences of tokens.  A token is a TLA+ string: a name      *)
(* fragment ("ds"), a separator ("_", "-"), the letter "o", the suffix     *)
(* ".npz", or the decimal rendering of a number ("0", "1", ...).           *)
(* An array (numpy / torch) is the sequence of its rows.                   *)
(***************************************************************************)
EXTENDS Integers, Sequences, FiniteSets, TLC

\* ------------------------------------------------------------------ bounds
MaxN == 5        \* largest dataset size len(data_df)
MaxK == 3        \* largest d_num_chunks
MaxMerges == 2   \* merge_embeddings invocations per worker
MaxL == 6        \* longest sequence handed to the chunker, besides the tests' inputs
MaxC == 4        \* largest chunk_length and overlap_size, besides the tests' inputs
MaxOverlap == 2  \* largest overlap passed to a DNABERT2 method
MaxSeqLen == 2   \* longest sequence passed to a DNABERT2 method

Workers == 0 .. (MaxK - 1)

VARIABLES
    N,          \* len(self.data_df)
    K,          \* self.d_num_chunks
    dir,        \* the embedding directory: file name -> stored array
    pc,         \* position of each worker process
    emb,        \* the tensor returned by embed_dataset, per worker
    snapshot,   \* names returned by the directory listing, per merge
    m_files,    \* processed_files_paths after sorting, per merge
    m_emb,      \* the list `embeddings` of loaded shard arrays, per merge
    err,        \* uncaught exception of a worker: <<type, position>>
    m_i,        \* position of the deletion loop in m_files, per merge
    merges,     \* number of merge_embeddings invocations started, per worker
    strayDone,  \* whether the out-of-range embedder has persisted
    is_sixtrack, \* model.is_sixtrack, the capability flag of the model
    calls,      \* the model calls embed_dataset has made, per worker
    chunker,    \* one call of chunk_sequence / chunk_tokens: arguments and result
    dnabert     \* one call of a DNABERT2 embedding method: arguments and result

vars == <<N, K, dir, pc, emb, snapshot, m_files, m_emb, m_i, err, merges, strayDone, is_sixtrack, calls, chunker, dnabert>>

\* ------------------------------------------------------- generic helpers
Min(a, b) == IF a < b THEN a ELSE b

Front(s) == SubSeq(s, 1, Len(s) - 1)

Last(s) == s[Len(s)]

RECURSIVE Flatten(_)
\* concatenation along axis 0 of a list of arrays
Flatten(list) ==
    IF list = <<>> THEN <<>> ELSE Head(list) \o Flatten(Tail(list))

\* every order in which a set of names can be enumerated
Orders(S) ==
    {s \in [1 .. Cardinality(S) -> S] : \A i, j \in DOMAIN s : i # j => s[i] # s[j]}

\* ------------------------------------------------ text <-> number
Digits == <<"0", "1", "2", "3", "4", "5", "6", "7", "8", "9">>

\* "{}".format(n) for a small non-negative integer
Str(n) == Digits[n + 1]

\* whether int(s) succeeds on the token sequence s
IsInt(s) == Len(s) = 1 /\ \E n \in 0 .. 9 : Digits[n + 1] = s[1]

\* int(s); only used where IsInt(s)
ParseInt(s) == CHOOSE n \in 0 .. 9 : Digits[n + 1] = s[1]

\* s[1:]
PyTail(s) == IF s = <<>> THEN <<>> ELSE Tail(s)

RECURSIVE Split(_, _)
\* str.split(sep): the fields between occurrences of sep (always >= 1 field)
Split(s, sep) ==
    IF s = <<>> THEN << <<>> >>
    ELSE LET rest == Split(Tail(s), sep)
         IN  IF Head(s) = sep
             THEN << <<>> >> \o rest
             ELSE << <<Head(s)>> \o Head(rest) >> \o Tail(rest)

\* ------------------------------------------------ dataset and model
dataset_name == <<"ds">>
short_name == <<"m">>
s_chunk_overlap == 0

\* dataset.data_df: row j (0-based) carries sequence id j
data_df(n) == [j \in 1 .. n |-> j - 1]

\* model.embed_sequence(row["sequence"], overlap): a (1 x H) tensor whose
\* single row is tagged by the identity of the input sequence
embed_sequence(seq) == << 10 + seq >>

\* model.embed_sequence_sixtrack(row["sequence"], cds, splice, overlap): a
\* (1 x H) tensor tagged by the identity of the input sequence
embed_sequence_sixtrack(seq, cds, splice) == << 10 + seq >>

\* row["cds"].astype(np.int32) and row["splice"].astype(np.int32) of the row
\* carrying sequence id seq
RowCds(seq) == 100 + seq

RowSplice(seq) == 200 + seq

\* no track array is passed
NoTrack == 0 - 1

\* ------------------------------------------------ naming scheme
get_output_filename_noCount(model_name, ds_name, overlap, d_chunk_ind, d_chunk_max_ind) ==
    LET out_path == ds_name \o <<"_">> \o model_name \o <<"_", "o", Str(overlap)>>
    IN  IF d_chunk_max_ind # 0
        THEN out_path \o <<"_", Str(d_chunk_ind)>>
        ELSE out_path

get_output_filename_indexTest(model_name, ds_name, overlap, d_chunk_ind, d_chunk_max_ind) ==
    LET out_path == ds_name \o <<"_">> \o model_name \o <<"_", "o", Str(overlap)>>
    IN  IF d_chunk_ind # 0
        THEN out_path \o <<"_", Str(d_chunk_ind), "-", Str(d_chunk_max_ind)>>
        ELSE out_path

\* get_output_filename without the output_dir prefix (one directory)
get_output_filename(model_name, ds_name, overlap, d_chunk_ind, d_chunk_max_ind) ==
    LET out_path == ds_name \o <<"_">> \o model_name \o <<"_", "o", Str(overlap)>>
    IN  IF d_chunk_max_ind # 0
        THEN out_path \o <<"_", Str(d_chunk_ind), "-", Str(d_chunk_max_ind)>>
        ELSE out_path

\* the file name np.savez_compressed(path, ...) writes: ".npz" is appended
\* unless the path already ends with it
SavezName(path) ==
    IF path # <<>> /\ Last(path) = ".npz" THEN path ELSE path \o <<".npz">>

\* Path(file).stem: the name without its final suffix
Stem(name) ==
    IF Len(name) > 1 /\ Last(name) = ".npz" THEN Front(name) ELSE name

\* mrna_bench.embedder.get_output_filepath, the function the linear probe
\* imports: the naming scheme of the artifacts
get_output_filepath(model_name, ds_name, overlap, d_chunk_ind, d_chunk_max_ind) ==
    get_output_filename(model_name, ds_name, overlap, d_chunk_ind, d_chunk_max_ind)

\* the file LinearProbe.load_persisted_embeddings opens
LoadName == get_output_filepath(short_name, dataset_name, s_chunk_overlap, 0, 0) \o <<".npz">>

\* ------------------------------------------------ directory operations
\* np.savez_compressed(path, embedding=array)
Savez(d, path, array) ==
    [f \in DOMAIN d \cup {SavezName(path)} |->
        IF f = SavezName(path) THEN array ELSE d[f]]

\* Path(file).unlink() of an existing file
Unlink(d, name) == [f \in DOMAIN d \ {name} |-> d[f]]

EmptyDir == [f \in {} |-> <<>>]

\* content of a file np.savez_compressed has opened (zipfile mode "w"
\* creates or truncates it) and not yet closed: no array can be read from it
Truncated == 0 - 1

PartialFile == <<Truncated>>

\* whether np.load(file)["embedding"] fails on this content
IsPartial(array) == \E r \in 1 .. Len(array) : array[r] = Truncated

\* ------------------------------------------------ DatasetEmbedder
d_chunk_size_floor(n, k) ==
    IF k = 0 THEN n ELSE n \div k

\* self.d_chunk_size as set by __init__
d_chunk_size(n, k) ==
    IF k = 0 THEN n ELSE (n \div k) + 1

Iloc_inclusive(df, s, e) == SubSeq(df, s + 1, Min(e + 1, Len(df)))

\* data_df.iloc[s:e]: positions s .. e-1, clipped to the frame
Iloc(df, s, e) == SubSeq(df, s + 1, Min(e, Len(df)))

get_dataset_chunk(n, k, ind) ==
    IF k = 0 THEN data_df(n)
    ELSE LET s == d_chunk_size(n, k) * ind
             e == s + d_chunk_size(n, k)
         IN  Iloc(data_df(n), s, e)

model_call_alwaysPlain(row, six) ==
    [method |-> "embed_sequence", sequence |-> row,
     cds |-> NoTrack, splice |-> NoTrack, overlap |-> s_chunk_overlap]

\* the model call one iteration of the loop of embed_dataset makes for a row
model_call(row, six) ==
    IF six
    THEN [method |-> "embed_sequence_sixtrack", sequence |-> row,
          cds |-> RowCds(row), splice |-> RowSplice(row), overlap |-> s_chunk_overlap]
    ELSE [method |-> "embed_sequence", sequence |-> row,
          cds |-> NoTrack, splice |-> NoTrack, overlap |-> s_chunk_overlap]

\* the tensor a model call returns
call_result(call) ==
    IF call.method = "embed_sequence_sixtrack"
    THEN embed_sequence_sixtrack(call.sequence, call.cds, call.splice)
    ELSE embed_sequence(call.sequence)

\* the model calls of the loop of embed_dataset, in the order they are made
model_calls(n, k, ind, six) ==
    LET chunk == get_dataset_chunk(n, k, ind)
    IN  [i \in 1 .. Len(chunk) |-> model_call(chunk[i], six)]

\* the list dataset_embeddings built by the loop of embed_dataset
dataset_embeddings(n, k, ind, six) ==
    LET made == model_calls(n, k, ind, six)
    IN  [i \in 1 .. Len(made) |-> call_result(made[i])]

\* torch.cat(list, dim=0) rejects an empty list
TorchCatRaises(list) == list = <<>>

\* np.concatenate(list, axis=0) rejects an empty list
NpConcatenateRaises(list) == list = <<>>

\* out_path of persist_embeddings
persist_path(k, ind) ==
    get_output_filename(short_name, dataset_name, s_chunk_overlap, ind, k)

\* out_fn of merge_embeddings
merge_out_fn == get_output_filename(short_name, dataset_name, s_chunk_overlap, 0, 0)

\* ------------------------------------------------ merge: scan of one file
\* outcome of the loop body of merge_embeddings for one directory entry:
\* "skip" (continue), "take" (appended), or the exception it raises
ScanFile(name, k) ==
    LET file_name_arr == Split(Stem(name), "_")
    IN  IF file_name_arr[1] # dataset_name THEN "skip"
        ELSE IF Len(file_name_arr) < 2 THEN "IndexError"
        ELSE IF file_name_arr[2] # short_name THEN "skip"
        ELSE IF Len(file_name_arr) < 3 THEN "IndexError"
        ELSE IF ~IsInt(PyTail(file_name_arr[3])) THEN "ValueError"
        ELSE IF ParseInt(PyTail(file_name_arr[3])) # s_chunk_overlap THEN "skip"
        ELSE IF Len(file_name_arr) < 4 THEN "IndexError"
        ELSE LET chunk_coords == Split(file_name_arr[4], "-")
             IN  IF ~IsInt(Last(chunk_coords)) THEN "ValueError"
                 ELSE IF ParseInt(Last(chunk_coords)) # k THEN "skip"
                 ELSE IF ~IsInt(chunk_coords[1]) THEN "ValueError"
                 ELSE "take"

\* int(chunk_coords[0]) of a file the scan takes
ScanInd(name) == ParseInt(Split(Split(Stem(name), "_")[4], "-")[1])

\* key of the sort: int(Path(x).stem.split("_")[-1].split("-")[0])
SortKey(name) == ParseInt(Split(Last(Split(Stem(name), "_")), "-")[1])

\* x placed behind every element whose key is not larger (stable)
InsertByKey(x, s) ==
    LET n == Cardinality({i \in DOMAIN s : SortKey(s[i]) <= SortKey(x)})
    IN  SubSeq(s, 1, n) \o <<x>> \o SubSeq(s, n + 1, Len(s))

SortedByKey_unsorted(s) == s

RECURSIVE SortedByKey(_)
\* sorted(processed_files_paths, key=...)
SortedByKey(s) ==
    IF s = <<>> THEN <<>> ELSE InsertByKey(Last(s), SortedByKey(Front(s)))

\* ------------------------------------------------ units not in use
\* no chunker call is in progress
ChunkerIdle ==
    [op |-> "none", sequence |-> <<>>, chunk_length |-> 1, overlap_size |-> 0,
     pc |-> "idle", chunks |-> <<>>, error |-> "none"]

\* no DNABERT2 call is in progress
DnabertIdle ==
    [method |-> "none", sequence |-> <<>>, overlap |-> 0, agg_given |-> FALSE,
     pc |-> "idle", backend |-> 0, error |-> "none"]

\* ------------------------------------------------ processes
\* worker w is the DatasetEmbedder constructed with d_chunk_ind = w
Active(w) == w < K \/ (K = 0 /\ w = 0)

NoErr == <<"none", "none">>

Raise(w, type, at) ==
    /\ pc' = [pc EXCEPT ![w] = "raised"]
    /\ err' = [err EXCEPT ![w] = <<type, at>>]

Init ==
    /\ N \in 0 .. MaxN
    /\ K \in 0 .. MaxK
    /\ dir = EmptyDir
    /\ pc = [w \in Workers |-> IF Active(w) THEN "start" ELSE "idle"]
    /\ emb = [w \in Workers |-> <<>>]
    /\ snapshot = [w \in Workers |-> {}]
    /\ m_files = [w \in Workers |-> <<>>]
    /\ m_emb = [w \in Workers |-> <<>>]
    /\ m_i = [w \in Workers |-> 1]
    /\ err = [w \in Workers |-> NoErr]
    /\ merges = [w \in Workers |-> 0]
    /\ strayDone = FALSE
    /\ is_sixtrack \in BOOLEAN
    /\ calls = [w \in Workers |-> <<>>]
    /\ chunker = ChunkerIdle
    /\ dnabert = DnabertIdle

\* embed_dataset(): the loop over the shard's rows, then torch.cat
EmbedDataset(w) ==
    /\ pc[w] = "start"
    /\ calls' = [calls EXCEPT ![w] = model_calls(N, K, w, is_sixtrack)]
    /\ LET list == dataset_embeddings(N, K, w, is_sixtrack)
       IN  IF TorchCatRaises(list)
           THEN /\ Raise(w, "RuntimeError", "embed_dataset")
                /\ UNCHANGED emb
           ELSE /\ emb' = [emb EXCEPT ![w] = Flatten(list)]
                /\ pc' = [pc EXCEPT ![w] = "embedded"]
                /\ UNCHANGED err
    /\ UNCHANGED <<N, K, dir, snapshot, m_files, m_emb, m_i, merges, strayDone, is_sixtrack, chunker, dnabert>>

\* persist_embeddings(embeddings) with the tensor embed_dataset returned
PersistEmbeddings(w) ==
    /\ pc[w] = "embedded"
    /\ dir' = Savez(dir, persist_path(K, w), emb[w])
    /\ emb' = [emb EXCEPT ![w] = <<>>]
    /\ pc' = [pc EXCEPT ![w] = "persisted"]
    /\ UNCHANGED <<N, K, snapshot, m_files, m_emb, m_i, err, merges, strayDone, is_sixtrack, calls, chunker, dnabert>>

\* merge_embeddings(), entry: Path(embedding_dir).iterdir() lists the directory
MergeList(w) ==
    /\ pc[w] \in {"persisted", "returned", "merged"}
    /\ K # 0
    /\ merges[w] < MaxMerges
    /\ merges' = [merges EXCEPT ![w] = @ + 1]
    /\ snapshot' = [snapshot EXCEPT ![w] = DOMAIN dir]
    /\ m_files' = [m_files EXCEPT ![w] = <<>>]
    /\ m_emb' = [m_emb EXCEPT ![w] = <<>>]
    /\ m_i' = [m_i EXCEPT ![w] = 1]
    /\ pc' = [pc EXCEPT ![w] = "m_scan"]
    /\ UNCHANGED <<N, K, dir, emb, err, strayDone, is_sixtrack, calls, chunker, dnabert>>

\* the scan loop, the completeness test and the sort
MergeScan(w) ==
    /\ pc[w] = "m_scan"
    /\ LET files == {f \in snapshot[w] : f \in DOMAIN dir}
           raising == {f \in files : ScanFile(f, K) \in {"IndexError", "ValueError"}}
           taken == {f \in files : ScanFile(f, K) = "take"}
           all_chunks == 0 .. (K - 1)
           processed_chunk_inds == {ScanInd(f) : f \in taken}
       IN  IF raising # {}
           THEN /\ \E f \in raising : Raise(w, ScanFile(f, K), "scan")
                /\ UNCHANGED m_files
           ELSE IF all_chunks \ processed_chunk_inds # {}
           THEN /\ pc' = [pc EXCEPT ![w] = "returned"]
                /\ UNCHANGED <<m_files, err>>
           ELSE /\ \E processed_files_paths \in Orders(taken) :
                      m_files' = [m_files EXCEPT ![w] = SortedByKey(processed_files_paths)]
                /\ pc' = [pc EXCEPT ![w] = "m_load"]
                /\ UNCHANGED err
    /\ UNCHANGED <<N, K, dir, emb, snapshot, m_emb, m_i, merges, strayDone, is_sixtrack, calls, chunker, dnabert>>

MergeLoad_skipMissing(w) ==
    /\ pc[w] = "m_load"
    /\ LET file_path == m_files[w][Len(m_emb[w]) + 1]
       IN  m_emb' = [m_emb EXCEPT ![w] =
               Append(@, IF file_path \in DOMAIN dir THEN dir[file_path] ELSE <<>>)]
    /\ pc' = [pc EXCEPT ![w] =
           IF Len(m_emb[w]) + 1 = Len(m_files[w]) THEN "m_write" ELSE "m_load"]
    /\ UNCHANGED <<N, K, dir, emb, snapshot, m_files, m_i, err, merges, strayDone, is_sixtrack, calls, chunker, dnabert>>

\* one iteration of the loading loop: np.load(file_path)["embedding"]
MergeLoad(w) ==
    /\ pc[w] = "m_load"
    /\ LET file_path == m_files[w][Len(m_emb[w]) + 1]
       IN  IF file_path \notin DOMAIN dir
           THEN /\ Raise(w, "FileNotFoundError", "load")
                /\ UNCHANGED m_emb
           ELSE IF IsPartial(dir[file_path])
           THEN /\ Raise(w, "BadZipFile", "load")
                /\ UNCHANGED m_emb
           ELSE /\ m_emb' = [m_emb EXCEPT ![w] = Append(@, dir[file_path])]
                /\ pc' = [pc EXCEPT ![w] =
                       IF Len(m_emb[w]) + 1 = Len(m_files[w]) THEN "m_write" ELSE "m_load"]
                /\ UNCHANGED err
    /\ UNCHANGED <<N, K, dir, emb, snapshot, m_files, m_i, merges, strayDone, is_sixtrack, calls, chunker, dnabert>>

\* np.concatenate and the write of the merged artifact
MergeWrite(w) ==
    /\ pc[w] = "m_write"
    /\ IF NpConcatenateRaises(m_emb[w])
       THEN /\ Raise(w, "ValueError", "concatenate")
            /\ UNCHANGED dir
       ELSE /\ dir' = Savez(dir, merge_out_fn, Flatten(m_emb[w]))
            /\ pc' = [pc EXCEPT ![w] = "m_unlink"]
            /\ UNCHANGED err
    /\ UNCHANGED <<N, K, emb, snapshot, m_files, m_emb, m_i, merges, strayDone, is_sixtrack, calls, chunker, dnabert>>

\* one iteration of the deletion loop: Path(file).unlink()
MergeUnlink(w) ==
    /\ pc[w] = "m_unlink"
    /\ LET file == m_files[w][m_i[w]]
       IN  IF file \notin DOMAIN dir
           THEN /\ Raise(w, "FileNotFoundError", "unlink")
                /\ UNCHANGED <<dir, m_i, m_files, m_emb>>
           ELSE /\ dir' = Unlink(dir, file)
                /\ IF m_i[w] = Len(m_files[w])
                   THEN /\ pc' = [pc EXCEPT ![w] = "merged"]
                        /\ m_i' = [m_i EXCEPT ![w] = 1]
                        /\ m_files' = [m_files EXCEPT ![w] = <<>>]
                        /\ m_emb' = [m_emb EXCEPT ![w] = <<>>]
                   ELSE /\ m_i' = [m_i EXCEPT ![w] = @ + 1]
                        /\ UNCHANGED <<pc, m_files, m_emb>>
                /\ UNCHANGED err
    /\ UNCHANGED <<N, K, emb, snapshot, merges, strayDone, is_sixtrack, calls, chunker, dnabert>>

Next ==
    \E w \in Workers :
        \/ EmbedDataset(w)
        \/ PersistEmbeddings(w)
        \/ MergeList(w)
        \/ MergeScan(w)
        \/ MergeLoad(w)
        \/ MergeWrite(w)
        \/ MergeUnlink(w)

Spec == Init /\ [][Next]_vars

\* ---- the same operations with np.savez_compressed in its two halves:
\* the file is opened at its final path, and later written and closed
\* persist_embeddings up to the opening of out_path
PersistBegin(w) ==
    /\ pc[w] = "embedded"
    /\ dir' = Savez(dir, persist_path(K, w), PartialFile)
    /\ pc' = [pc EXCEPT ![w] = "p_writing"]
    /\ UNCHANGED <<N, K, emb, snapshot, m_files, m_emb, m_i, err, merges, strayDone, is_sixtrack, calls, chunker, dnabert>>

\* persist_embeddings from there to its return
PersistEnd(w) ==
    /\ pc[w] = "p_writing"
    /\ dir' = Savez(dir, persist_path(K, w), emb[w])
    /\ emb' = [emb EXCEPT ![w] = <<>>]
    /\ pc' = [pc EXCEPT ![w] = "persisted"]
    /\ UNCHANGED <<N, K, snapshot, m_files, m_emb, m_i, err, merges, strayDone, is_sixtrack, calls, chunker, dnabert>>

\* np.concatenate and the opening of the merged artifact
MergeWriteBegin(w) ==
    /\ pc[w] = "m_write"
    /\ IF NpConcatenateRaises(m_emb[w])
       THEN /\ Raise(w, "ValueError", "concatenate")
            /\ UNCHANGED dir
       ELSE /\ dir' = Savez(dir, merge_out_fn, PartialFile)
            /\ pc' = [pc EXCEPT ![w] = "m_writing"]
            /\ UNCHANGED err
    /\ UNCHANGED <<N, K, emb, snapshot, m_files, m_emb, m_i, merges, strayDone, is_sixtrack, calls, chunker, dnabert>>

\* the write and close of the merged artifact
MergeWriteEnd(w) ==
    /\ pc[w] = "m_writing"
    /\ dir' = Savez(dir, merge_out_fn, Flatten(m_emb[w]))
    /\ pc' = [pc EXCEPT ![w] = "m_unlink"]
    /\ UNCHANGED <<N, K, emb, snapshot, m_files, m_emb, m_i, err, merges, strayDone, is_sixtrack, calls, chunker, dnabert>>

\* the worker process is killed while a file it opened is not yet closed
Kill(w) ==
    /\ pc[w] \in {"p_writing", "m_writing"}
    /\ pc' = [pc EXCEPT ![w] = "killed"]
    /\ UNCHANGED <<N, K, dir, emb, snapshot, m_files, m_emb, m_i, err, merges, strayDone, is_sixtrack, calls, chunker, dnabert>>

NextWrite ==
    \E w \in Workers :
        \/ EmbedDataset(w)
        \/ PersistBegin(w)
        \/ PersistEnd(w)
        \/ MergeList(w)
        \/ MergeScan(w)
        \/ MergeLoad(w)
        \/ MergeWriteBegin(w)
        \/ MergeWriteEnd(w)
        \/ MergeUnlink(w)
        \/ Kill(w)

SpecWrite == Init /\ [][NextWrite]_vars

\* ------------------------------------------------ the chunker
\* RNAFM.max_length, as the tests assert it
max_length == 1024

\* the guard of chunk_sequence and chunk_tokens never fires
overlap_invalid_never(chunk_length, overlap_size) == FALSE

\* the guard of chunk_sequence and chunk_tokens: it raises ValueError
overlap_invalid(chunk_length, overlap_size) == overlap_size >= chunk_length

\* range() rejects a zero step
RangeRaises(step) == step = 0

RECURSIVE PyRangeFrom(_, _, _)
\* the values i, i + step, ... below stop, for a positive step
PyRangeFrom(i, stop, step) ==
    IF i < stop THEN <<i>> \o PyRangeFrom(i + step, stop, step) ELSE <<>>

\* range(0, stop, step) for stop >= 0: empty when the step is negative
PyRange(stop, step) ==
    IF step > 0 THEN PyRangeFrom(0, stop, step) ELSE <<>>

\* sequence[a:b] for 0 <= a <= b: the end is clipped to the length
PySlice(sequence, a, b) == SubSeq(sequence, a + 1, Min(b, Len(sequence)))

chunk_sequence_noOverlap(sequence, chunk_length, overlap_size) ==
    LET starts == PyRange(Len(sequence), chunk_length)
    IN  [k \in 1 .. Len(starts) |-> PySlice(sequence, starts[k], starts[k] + chunk_length)]

chunk_sequence_gap(sequence, chunk_length, overlap_size) ==
    LET starts == PyRange(Len(sequence), chunk_length + overlap_size)
    IN  [k \in 1 .. Len(starts) |-> PySlice(sequence, starts[k], starts[k] + chunk_length)]

\* the list chunk_sequence returns when it does not raise
chunk_sequence(sequence, chunk_length, overlap_size) ==
    LET step_size == chunk_length - overlap_size
        starts == PyRange(Len(sequence), step_size)
    IN  [k \in 1 .. Len(starts) |-> PySlice(sequence, starts[k], starts[k] + chunk_length)]

\* the list chunk_tokens returns when it does not raise
chunk_tokens(sequence_tokens, chunk_length, overlap_size) ==
    LET step_size == chunk_length - overlap_size
        starts == PyRange(Len(sequence_tokens), step_size)
    IN  [k \in 1 .. Len(starts) |-> PySlice(sequence_tokens, starts[k], starts[k] + chunk_length)]

\* an input of length l: the element at each position names the position
Positions(l) == [i \in 1 .. l |-> i - 1]

\* (length, chunk_length, overlap) of test_rnafm_forward_chunking and of
\* test_rnafm_forward_chunking_overlap
TestInputs ==
    { <<2 * max_length + 10, max_length - 2, 0>>,
      <<max_length + (max_length \div 2), max_length - 2, 100>> }

ChunkerInputs ==
    {<<l, c, o>> : l \in 0 .. MaxL, c \in 1 .. MaxC, o \in 0 .. MaxC} \cup TestInputs

\* a caller is about to call chunk_sequence or chunk_tokens
InitChunk ==
    /\ N = 0
    /\ K = 0
    /\ dir = EmptyDir
    /\ pc = [w \in Workers |-> "idle"]
    /\ emb = [w \in Workers |-> <<>>]
    /\ snapshot = [w \in Workers |-> {}]
    /\ m_files = [w \in Workers |-> <<>>]
    /\ m_emb = [w \in Workers |-> <<>>]
    /\ m_i = [w \in Workers |-> 1]
    /\ err = [w \in Workers |-> NoErr]
    /\ merges = [w \in Workers |-> 0]
    /\ strayDone = FALSE
    /\ is_sixtrack = FALSE
    /\ calls = [w \in Workers |-> <<>>]
    /\ dnabert = DnabertIdle
    /\ \E in \in ChunkerInputs, op \in {"chunk_sequence", "chunk_tokens"} :
          chunker = [op |-> op, sequence |-> Positions(in[1]), chunk_length |-> in[2],
                     overlap_size |-> in[3], pc |-> "called", chunks |-> <<>>,
                     error |-> "none"]

\* the frame of a chunker call
ChunkerFrame ==
    UNCHANGED <<N, K, dir, pc, emb, snapshot, m_files, m_emb, m_i, err, merges,
                strayDone, is_sixtrack, calls, dnabert>>

\* chunk_sequence(sequence, chunk_length, overlap_size)
ChunkSequence ==
    /\ chunker.op = "chunk_sequence"
    /\ chunker.pc = "called"
    /\ IF \/ overlap_invalid(chunker.chunk_length, chunker.overlap_size)
          \/ RangeRaises(chunker.chunk_length - chunker.overlap_size)
       THEN chunker' = [chunker EXCEPT !.pc = "raised", !.error = "ValueError"]
       ELSE chunker' = [chunker EXCEPT !.pc = "returned",
                !.chunks = chunk_sequence(chunker.sequence, chunker.chunk_length,
                                          chunker.overlap_size)]
    /\ ChunkerFrame

\* chunk_tokens(sequence_tokens, chunk_length, overlap_size)
ChunkTokens ==
    /\ chunker.op = "chunk_tokens"
    /\ chunker.pc = "called"
    /\ IF \/ overlap_invalid(chunker.chunk_length, chunker.overlap_size)
          \/ RangeRaises(chunker.chunk_length - chunker.overlap_size)
       THEN chunker' = [chunker EXCEPT !.pc = "raised", !.error = "ValueError"]
       ELSE chunker' = [chunker EXCEPT !.pc = "returned",
                !.chunks = chunk_tokens(chunker.sequence, chunker.chunk_length,
                                        chunker.overlap_size)]
    /\ ChunkerFrame

NextChunk == ChunkSequence \/ ChunkTokens

SpecChunk == InitChunk /\ [][NextChunk]_vars

\* ------------------------------------------------ DNABERT2
Bases == {"A", "C", "G", "T"}

\* the nucleotide strings passed to the model
Sequences == UNION {[1 .. n -> Bases] : n \in 0 .. MaxSeqLen}

\* a caller is about to call a DNABERT2 embedding method, passing agg_fn
\* or leaving it out as the interface of EmbeddingModel allows
InitDnabert ==
    /\ N = 0
    /\ K = 0
    /\ dir = EmptyDir
    /\ pc = [w \in Workers |-> "idle"]
    /\ emb = [w \in Workers |-> <<>>]
    /\ snapshot = [w \in Workers |-> {}]
    /\ m_files = [w \in Workers |-> <<>>]
    /\ m_emb = [w \in Workers |-> <<>>]
    /\ m_i = [w \in Workers |-> 1]
    /\ err = [w \in Workers |-> NoErr]
    /\ merges = [w \in Workers |-> 0]
    /\ strayDone = FALSE
    /\ is_sixtrack = FALSE
    /\ calls = [w \in Workers |-> <<>>]
    /\ chunker = ChunkerIdle
    /\ \E m \in {"embed_sequence", "embed_sequence_sixtrack"}, sq \in Sequences,
          o \in 0 .. MaxOverlap, g \in BOOLEAN :
          dnabert = [method |-> m, sequence |-> sq, overlap |-> o, agg_given |-> g,
                     pc |-> "called", backend |-> 0, error |-> "none"]

\* the frame of a DNABERT2 call
DnabertFrame ==
    UNCHANGED <<N, K, dir, pc, emb, snapshot, m_files, m_emb, m_i, err, merges,
                strayDone, is_sixtrack, calls, chunker>>

\* the guard of DNABERT2.embed_sequence
dnabert_rejects_overlap(overlap) == overlap # 0

\* DNABERT2.embed_sequence(sequence, overlap=0, agg_fn=torch.mean); backend
\* counts the forward passes of the tokenizer and model
DnabertEmbedSequence ==
    /\ dnabert.method = "embed_sequence"
    /\ dnabert.pc = "called"
    /\ IF dnabert_rejects_overlap(dnabert.overlap)
       THEN dnabert' = [dnabert EXCEPT !.pc = "raised", !.error = "ValueError"]
       ELSE dnabert' = [dnabert EXCEPT !.pc = "returned", !.backend = @ + 1]
    /\ DnabertFrame

\* DNABERT2.embed_sequence_sixtrack(sequence, cds, splice, overlap, agg_fn):
\* agg_fn has no default here, so a call that leaves it out does not bind
DnabertEmbedSixtrack ==
    /\ dnabert.method = "embed_sequence_sixtrack"
    /\ dnabert.pc = "called"
    /\ IF ~dnabert.agg_given
       THEN dnabert' = [dnabert EXCEPT !.pc = "raised", !.error = "TypeError"]
       ELSE dnabert' = [dnabert EXCEPT !.pc = "raised", !.error = "NotImplementedError"]
    /\ DnabertFrame

NextDnabert == DnabertEmbedSequence \/ DnabertEmbedSixtrack

SpecDnabert == InitDnabert /\ [][NextDnabert]_vars

\* ------------------------------------------------ other groups
\* names of another dataset and another model; no name holds an underscore
other_dataset_name == <<"o", "0">>

other_short_name == <<"x">>

\* out_path of persist_embeddings for the run with descriptor d
DescriptorPath(d) ==
    get_output_filename(d.model, d.ds, d.overlap, d.ind, d.count)

\* the unsharded run (d_num_chunks = 0) of this dataset, model and overlap
UnshardedDescriptor ==
    [ds |-> dataset_name, model |-> short_name, overlap |-> s_chunk_overlap,
     ind |-> 0, count |-> 0]

\* runs of other groups that persisted into the same embedding_dir: each
\* differs from the group (dataset_name, short_name, s_chunk_overlap, k) in
\* the dataset, the model, the overlap or the total shard count
OtherGroups(k) ==
    << [ds |-> other_dataset_name, model |-> short_name,
        overlap |-> s_chunk_overlap, ind |-> 0, count |-> k],
       [ds |-> other_dataset_name, model |-> short_name,
        overlap |-> s_chunk_overlap, ind |-> 0, count |-> 0],
       [ds |-> dataset_name, model |-> other_short_name,
        overlap |-> s_chunk_overlap, ind |-> 1, count |-> k],
       [ds |-> dataset_name, model |-> short_name,
        overlap |-> s_chunk_overlap + 1, ind |-> 0, count |-> k],
       [ds |-> dataset_name, model |-> short_name,
        overlap |-> s_chunk_overlap + 1, ind |-> 0, count |-> 0],
       [ds |-> dataset_name, model |-> short_name,
        overlap |-> s_chunk_overlap, ind |-> 0, count |-> k + 1] >>

\* the array the p-th of these runs persisted
ForeignTensor(p) == << 50 + p >>

RECURSIVE SavezAll(_, _)
\* the directory after the first p runs of descs have persisted
SavezAll(descs, p) ==
    IF p = 0 THEN EmptyDir
    ELSE Savez(SavezAll(descs, p - 1), DescriptorPath(descs[p]), ForeignTensor(p))

\* the workers of one sharded run start in a directory other runs have
\* written to, with or without the artifact of an unsharded run
InitForeign ==
    /\ N \in 0 .. MaxN
    /\ K \in 1 .. MaxK
    /\ \E runs \in {OtherGroups(K), Append(OtherGroups(K), UnshardedDescriptor)} :
          dir = SavezAll(runs, Len(runs))
    /\ pc = [w \in Workers |-> IF Active(w) THEN "start" ELSE "idle"]
    /\ emb = [w \in Workers |-> <<>>]
    /\ snapshot = [w \in Workers |-> {}]
    /\ m_files = [w \in Workers |-> <<>>]
    /\ m_emb = [w \in Workers |-> <<>>]
    /\ m_i = [w \in Workers |-> 1]
    /\ err = [w \in Workers |-> NoErr]
    /\ merges = [w \in Workers |-> 0]
    /\ strayDone = FALSE
    /\ is_sixtrack = FALSE
    /\ calls = [w \in Workers |-> <<>>]
    /\ chunker = ChunkerIdle
    /\ dnabert = DnabertIdle

SpecForeign == InitForeign /\ [][Next]_vars

\* a tensor that is not a shard of the dataset
StrayTensor == <<99>>

\* persist_embeddings(t) on a DatasetEmbedder constructed with
\* d_chunk_ind = d_num_chunks: the constructor accepts any index
StrayPersist ==
    /\ ~strayDone
    /\ K # 0
    /\ dir' = Savez(dir, persist_path(K, K), StrayTensor)
    /\ strayDone' = TRUE
    /\ UNCHANGED <<N, K, pc, emb, snapshot, m_files, m_emb, m_i, err, merges, is_sixtrack, calls, chunker, dnabert>>

NextStray == Next \/ StrayPersist

\* the capability flag plays no part in the merge: one model suffices here
InitStray == Init /\ ~is_sixtrack

SpecStray == InitStray /\ [][NextStray]_vars

TypeOK ==
    /\ N \in 0 .. MaxN
    /\ K \in 0 .. MaxK
    /\ \A w \in Workers : merges[w] \in 0 .. MaxMerges

\* ------------------------------------------------ vocabulary of the claims
\* the file shard i of this group is persisted in
ShardFile(i) == SavezName(persist_path(K, i))

\* the canonical merged / unsharded artifact of this group
MergedFile == SavezName(merge_out_fn)

\* the embedding of dataset row j for every j in [0, N), in dataset order
FullEmbedding == [j \in 1 .. N |-> embed_sequence(data_df(N)[j])[1]]

\* division rounding up
CeilDiv(n, k) == (n + k - 1) \div k

\* the merge invocation of w got past the completeness test (line 146)
PassedCompleteness(w) ==
    \/ pc[w] \in {"m_load", "m_write", "m_unlink", "merged"}
    \/ pc[w] = "raised" /\ err[w][2] \in {"load", "concatenate", "unlink"}

\* ------------------------------------------------ C1
\* C1: for K > 0 the shards 0..K-1 partition the rows [0, N): laid end to
\* end in shard order they are the data frame itself, so every row is in
\* exactly one shard and rows keep their order inside each shard.
C1_ShardsPartition ==
    K > 0 => Flatten([i \in 1 .. K |-> get_dataset_chunk(N, K, i - 1)]) = data_df(N)

C1_Witness ==
    /\ K >= 2
    /\ N >= 3
    /\ \E w \in Workers : w >= 1 /\ pc[w] = "embedded" /\ emb[w] # <<>>

\* ------------------------------------------------ C2
\* C2: the shard size is ceil(N / K) for K > 0 and N for K = 0, and shard i
\* covers rows [i*shard_size, (i+1)*shard_size) clamped to [0, N).
C2_Claim ==
    /\ d_chunk_size(N, K) = (IF K = 0 THEN N ELSE CeilDiv(N, K))
    /\ \A i \in 0 .. (K - 1) :
          get_dataset_chunk(N, K, i) =
              SubSeq(data_df(N), i * d_chunk_size(N, K) + 1,
                     Min((i + 1) * d_chunk_size(N, K), N))

\* ------------------------------------------------ C3
\* C3: embed_dataset on a shard of n rows returns an n-row matrix whose
\* row i is the embedding of the shard's i-th row, for every n.
C3_Claim ==
    \A w \in Workers :
        /\ ~(pc[w] = "raised" /\ err[w][2] = "embed_dataset")
        /\ pc[w] = "embedded" =>
              LET chunk == get_dataset_chunk(N, K, w)
              IN  emb[w] = [i \in 1 .. Len(chunk) |-> embed_sequence(chunk[i])[1]]

\* ------------------------------------------------ C4
\* what an unsharded run (d_num_chunks = 0) leaves in an empty directory
UnshardedRun ==
    Savez(EmptyDir, persist_path(0, 0), Flatten(dataset_embeddings(N, 0, 0, is_sixtrack)))

\* C4: once a merge has run to completion, the merged artifact is the file
\* an unsharded run writes: same name (the one the linear probe loads),
\* same rows in the same order, row j the embedding of dataset row j.
C4_MergedEqualsUnsharded ==
    \A w \in Workers :
        pc[w] = "merged" =>
            /\ \A f \in DOMAIN UnshardedRun :
                  f \in DOMAIN dir /\ dir[f] = UnshardedRun[f]
            /\ LoadName \in DOMAIN dir
            /\ dir[LoadName] = FullEmbedding

C4_Witness ==
    /\ K >= 2
    /\ \E w \in Workers : pc[w] = "merged" /\ merges[w] = 1
    /\ Len(dir[MergedFile]) = N

\* ------------------------------------------------ C5
\* C5: a merge whose scan finds some shard index of 0..K-1 without a file
\* returns without raising and leaves the directory as it was.
C5_Claim ==
    [][\A w \in Workers :
          ( /\ pc[w] = "m_scan"
            /\ pc'[w] # "m_scan"
            /\ \E i \in 0 .. (K - 1) : ShardFile(i) \notin (snapshot[w] \cap DOMAIN dir) )
          => (pc'[w] = "returned" /\ dir' = dir)]_vars

\* ------------------------------------------------ C6
\* C6: a merge invoked after a completed merge, which finds the merged
\* artifact and no shard file in the directory, does not raise.
C6_Claim ==
    \A w \in Workers :
        (pc[w] = "raised" /\ err[w][2] = "scan") => snapshot[w] # {MergedFile}

\* ------------------------------------------------ C7
\* the array the merge of w loaded from the shard file of index i
LoadedOf(w, i) ==
    m_emb[w][CHOOSE p \in 1 .. Len(m_files[w]) : m_files[w][p] = ShardFile(i)]

\* C7: whatever order the listing returned the files in, the merged array
\* a merge has written is the concatenation of the shard arrays it loaded
\* in ascending numeric shard index.
C7_AscendingConcat ==
    \A w \in Workers :
        pc[w] = "m_unlink" =>
            /\ \A i \in 0 .. (K - 1) : \E p \in 1 .. Len(m_files[w]) : m_files[w][p] = ShardFile(i)
            /\ MergedFile \in DOMAIN dir
            /\ dir[MergedFile] = Flatten([i \in 1 .. K |-> LoadedOf(w, i - 1)])

C7_Witness ==
    /\ K = 3
    /\ \E w \in Workers : pc[w] = "m_unlink" /\ Len(m_emb[w]) = 3

\* ------------------------------------------------ C8
\* C8: a merge proceeds only if the indices found are exactly 0..K-1; the
\* rows of a file with an index outside 0..K-1 never enter the merged
\* artifact.
C8_Claim ==
    /\ \A w \in Workers :
          (PassedCompleteness(w) /\ pc[w] \in {"m_load", "m_write", "m_unlink"})
              => {ScanInd(m_files[w][p]) : p \in 1 .. Len(m_files[w])} = 0 .. (K - 1)
    /\ MergedFile \in DOMAIN dir =>
          \A r \in 1 .. Len(dir[MergedFile]) : dir[MergedFile][r] # StrayTensor[1]

\* ------------------------------------------------ C9
\* C9: a merge that passed the completeness test never raises because a
\* shard file it loads or deletes was already removed by another merge.
C9_Claim ==
    \A w \in Workers :
        pc[w] = "raised" => err[w][2] \notin {"load", "unlink"}

C17_Claim ==
    \A w \in Workers :
        (Active(w) /\ get_dataset_chunk(N, K, w) = <<>>) =>
            /\ err[w] # <<"RuntimeError", "embed_dataset">>
            /\ pc[w] \in {"persisted", "m_scan"} =>
                  (ShardFile(w) \in DOMAIN dir => dir[ShardFile(w)] = <<>>)

\* ------------------------------------------------ C19
\* the call embed_dataset has to make for a row, by the capability flag
ExpectedCall(row) ==
    IF is_sixtrack
    THEN [method |-> "embed_sequence_sixtrack", sequence |-> row,
          cds |-> RowCds(row), splice |-> RowSplice(row), overlap |-> s_chunk_overlap]
    ELSE [method |-> "embed_sequence", sequence |-> row,
          cds |-> NoTrack, splice |-> NoTrack, overlap |-> s_chunk_overlap]

\* C19: once embed_dataset has run, it has made exactly one model call per
\* row of the shard, in row order: embed_sequence_sixtrack with the row's
\* cds and splice arrays if is_sixtrack, embed_sequence otherwise, each with
\* the configured overlap.
C19_DispatchOnFlag ==
    \A w \in Workers :
        (Active(w) /\ pc[w] # "start") =>
            LET chunk == get_dataset_chunk(N, K, w)
            IN  /\ Len(calls[w]) = Len(chunk)
                /\ \A i \in 1 .. Len(chunk) : calls[w][i] = ExpectedCall(chunk[i])
                /\ ~is_sixtrack =>
                      \A i \in 1 .. Len(calls[w]) : calls[w][i].method # "embed_sequence_sixtrack"

C19_WitnessSixtrack ==
    /\ is_sixtrack
    /\ \E w \in Workers : pc[w] = "embedded" /\ Len(calls[w]) >= 2

\* ------------------------------------------------ C11
\* C11: every file visible in the directory holds a complete array, also
\* while a writer is inside np.savez_compressed or was killed there; no
\* merge has counted a partially written shard or failed to load one.
C11_Claim ==
    /\ \A f \in DOMAIN dir : ~IsPartial(dir[f])
    /\ \A w \in Workers :
          /\ err[w][1] # "BadZipFile"
          /\ pc[w] = "m_load" =>
                \A p \in 1 .. Len(m_files[w]) :
                    m_files[w][p] \in DOMAIN dir => ~IsPartial(dir[m_files[w][p]])

\* ------------------------------------------------ C16
\* {dataset}_{model}_o{overlap}, the canonical path
CanonicalPath == dataset_name \o <<"_">> \o short_name \o <<"_", "o", Str(s_chunk_overlap)>>

\* C16: get_output_filename appends _{index}-{count} exactly when the count
\* is not 0; with count 0 it is the canonical path for every index, the
\* path a merge writes, an unsharded run writes and the linear probe reads.
C16_SuffixIffSharded ==
    /\ \A i \in 0 .. MaxK, k \in 0 .. MaxK :
          get_output_filename(short_name, dataset_name, s_chunk_overlap, i, k) =
              (IF k # 0 THEN CanonicalPath \o <<"_", Str(i), "-", Str(k)>>
                        ELSE CanonicalPath)
    /\ LoadName = SavezName(CanonicalPath)
    /\ \A w \in Workers :
          pc[w] \in {"m_unlink", "merged"} => SavezName(CanonicalPath) \in DOMAIN dir
    /\ (K = 0 /\ pc[0] = "persisted") => DOMAIN dir = {SavezName(CanonicalPath)}

C16_Witness ==
    /\ K >= 2
    /\ \E w \in Workers : pc[w] = "m_unlink" /\ m_i[w] = 1
    /\ \E i \in 0 .. (K - 1) :
          SavezName(CanonicalPath \o <<"_", Str(i), "-", Str(K)>>) \in DOMAIN dir

\* ------------------------------------------------ C20
\* worker w has no step left to take
Stopped(w) ==
    \/ pc[w] \in {"idle", "raised"}
    \/ K = 0 /\ pc[w] = "persisted"
    \/ pc[w] \in {"returned", "merged"} /\ merges[w] = MaxMerges

\* C20: for N >= 1 and K >= 1, once every worker has run embed, persist and
\* merge as far as it gets, the merged artifact exists with exactly N rows
\* and no shard file of the group remains (what "eventually" promises of a
\* run in which no worker has a step left).
C20_Claim ==
    (N >= 1 /\ K >= 1 /\ \A w \in Workers : Stopped(w)) =>
        /\ MergedFile \in DOMAIN dir
        /\ Len(dir[MergedFile]) = N
        /\ \A i \in 0 .. (K - 1) : ShardFile(i) \notin DOMAIN dir

\* ------------------------------------------------ C12
\* length of the input of the chunker call
InLen == Len(chunker.sequence)

\* the lengths of the windows returned
WindowLengths == [i \in 1 .. Len(chunker.chunks) |-> Len(chunker.chunks[i])]

\* C12: for L > 0 and 0 <= O < C the chunker returns ceil(L / (C - O))
\* windows, window i being input[i*(C-O) : min(i*(C-O) + C, L)]; the two
\* inputs of the tests give windows of lengths M-2, M-2, 14 and of lengths
\* M-2, 100 + M/2 + 2.
C12_WindowCountAndBounds ==
    (chunker.pc = "returned" /\ InLen > 0) =>
        LET C == chunker.chunk_length
            step == chunker.chunk_length - chunker.overlap_size
        IN  /\ Len(chunker.chunks) = CeilDiv(InLen, step)
            /\ \A i \in 0 .. (Len(chunker.chunks) - 1) :
                  chunker.chunks[i + 1] =
                      SubSeq(chunker.sequence, i * step + 1, Min(i * step + C, InLen))
            /\ (InLen = 2 * max_length + 10 /\ C = max_length - 2 /\ chunker.overlap_size = 0)
                  => WindowLengths = <<max_length - 2, max_length - 2, 14>>
            /\ (InLen = max_length + (max_length \div 2) /\ C = max_length - 2
                    /\ chunker.overlap_size = 100)
                  => WindowLengths = <<max_length - 2, 100 + (max_length \div 2) + 2>>

C12_Witness ==
    /\ chunker.pc = "returned"
    /\ chunker.op = "chunk_sequence"
    /\ InLen = max_length + (max_length \div 2)
    /\ chunker.overlap_size = 100
    /\ Len(chunker.chunks) = 2

\* ------------------------------------------------ C13
RECURSIVE Contributed(_, _)
\* the positions the windows contribute, each window giving only those no
\* earlier window gave, in window order
Contributed(windows, acc) ==
    IF windows = <<>> THEN acc
    ELSE LET seen == {acc[j] : j \in 1 .. Len(acc)}
         IN  Contributed(Tail(windows),
                         acc \o SelectSeq(Head(windows), LAMBDA x : x \notin seen))

\* C13: the windows' newly contributed positions, in window order, are
\* exactly 0 .. L-1, and each window starts at or before the end of the
\* previous one.
C13_Coverage ==
    chunker.pc = "returned" =>
        /\ Contributed(chunker.chunks, <<>>) = Positions(InLen)
        /\ \A i \in 2 .. Len(chunker.chunks) :
              /\ chunker.chunks[i] # <<>>
              /\ chunker.chunks[i][1] <= Last(chunker.chunks[i - 1]) + 1

C13_Witness ==
    /\ chunker.pc = "returned"
    /\ chunker.overlap_size >= 1
    /\ Len(chunker.chunks) >= 3
    /\ InLen <= MaxL

\* ------------------------------------------------ C14
\* C14: for an input of length 0 the chunker returns exactly one window,
\* the empty one; so it returns at least one window for every input.
C14_Claim ==
    chunker.pc = "returned" =>
        /\ InLen = 0 => chunker.chunks = << <<>> >>
        /\ Len(chunker.chunks) >= 1

\* ------------------------------------------------ C15
\* C15: the chunker raises ValueError, returning no window, exactly when
\* overlap_size >= chunk_length, whatever the input length.
C15_RejectsLargeOverlap ==
    chunker.pc \in {"returned", "raised"} =>
        /\ (chunker.overlap_size >= chunker.chunk_length) <=> (chunker.pc = "raised")
        /\ chunker.pc = "raised" => (chunker.error = "ValueError" /\ chunker.chunks = <<>>)

C15_Witness ==
    /\ chunker.pc = "raised"
    /\ chunker.overlap_size > chunker.chunk_length
    /\ InLen = 0

\* ------------------------------------------------ C18
\* C18: on DNABERT2, which neither chunks nor supports six tracks,
\* embed_sequence with overlap # 0 raises a configuration error before the
\* backend runs, embed_sequence_sixtrack always raises the
\* unsupported-operation error, and embed_sequence with overlap 0 raises
\* nothing.
C18_Claim ==
    dnabert.pc \in {"returned", "raised"} =>
        /\ (dnabert.method = "embed_sequence" /\ dnabert.overlap # 0) =>
              (dnabert.pc = "raised" /\ dnabert.error = "ValueError" /\ dnabert.backend = 0)
        /\ dnabert.method = "embed_sequence_sixtrack" =>
              ( /\ dnabert.pc = "raised"
                /\ dnabert.error = "NotImplementedError"
                /\ dnabert.backend = 0 )
        /\ (dnabert.method = "embed_sequence" /\ dnabert.overlap = 0) =>
              (dnabert.pc = "returned" /\ dnabert.backend = 1)

\* ------------------------------------------------ C21
\* the rows persist_embeddings of worker i wrote
ShardEmbedding(i) == Flatten(dataset_embeddings(N, K, i, is_sixtrack))

\* persist_embeddings of worker i has returned
Persisted(i) ==
    /\ Active(i)
    /\ emb[i] = <<>>
    /\ pc[i] # "start"
    /\ ~(pc[i] = "raised" /\ err[i][2] = "embed_dataset")

\* the rows of small stand in big, in order and without a gap
Contains(big, small) ==
    \E off \in 0 .. (Len(big) - Len(small)) :
        SubSeq(big, off + 1, off + Len(small)) = small

\* C21: in every reachable state, each shard that was persisted is still
\* there as its shard file or its rows are in the merged artifact that
\* exists, also while merges run concurrently or have stopped part-way.
C21_Claim ==
    \A i \in 0 .. (K - 1) :
        Persisted(i) =>
            \/ ShardFile(i) \in DOMAIN dir
            \/ /\ MergedFile \in DOMAIN dir
               /\ Contains(dir[MergedFile], ShardEmbedding(i))

\* ------------------------------------------------ C22
\* the file the p-th run of descs persisted
ForeignFile(descs, p) == SavezName(DescriptorPath(descs[p]))

\* every run of another group that may have persisted into the directory
AllOtherRuns == Append(OtherGroups(K), UnshardedDescriptor)

\* f is a file of another group, as that group's run wrote it
IsForeign(f) ==
    \E p \in 1 .. Len(AllOtherRuns) :
        /\ f = ForeignFile(AllOtherRuns, p)
        /\ f \in DOMAIN dir
        /\ dir[f] = ForeignTensor(p)

\* C22: a merge of group (dataset, model, overlap, K) leaves the files of
\* other groups in place and unchanged, never counts or loads one of them,
\* and never raises in its scan on account of such a file.
C22_Claim ==
    /\ \A p \in 1 .. Len(OtherGroups(K)) :
          /\ ForeignFile(OtherGroups(K), p) \in DOMAIN dir
          /\ dir[ForeignFile(OtherGroups(K), p)] = ForeignTensor(p)
    /\ \A w \in Workers :
          /\ \A q \in 1 .. Len(m_files[w]) :
                \A p \in 1 .. Len(AllOtherRuns) :
                    m_files[w][q] # ForeignFile(AllOtherRuns, p)
          /\ \A q \in 1 .. Len(m_emb[w]) :
                \A p \in 1 .. Len(AllOtherRuns) : m_emb[w][q] # ForeignTensor(p)
          /\ (pc[w] = "raised" /\ err[w][2] = "scan") =>
                \E f \in snapshot[w] :
                    /\ ~IsForeign(f)
                    /\ ScanFile(f, K) \in {"IndexError", "ValueError"}

\* ------------------------------------------------ C23
\* the descriptor worker i of this run persists under
OwnDescriptor(i) ==
    [ds |-> dataset_name, model |-> short_name, overlap |-> s_chunk_overlap,
     ind |-> i, count |-> K]

\* the descriptors of the runs that share the directory
Descriptors ==
    {OwnDescriptor(i) : i \in 0 .. (K - 1)}
        \cup {AllOtherRuns[p] : p \in 1 .. Len(AllOtherRuns)}

ShardDescriptors == {d \in Descriptors : d.count # 0}

MergedDescriptors == {d \in Descriptors : d.count = 0}

\* the file a run with descriptor d writes
FileOf(d) == SavezName(DescriptorPath(d))

\* distinct shard descriptors have distinct files, none of them the file of
\* a merged or unsharded artifact
DistinctPaths ==
    /\ \A d1, d2 \in ShardDescriptors : d1 # d2 => FileOf(d1) # FileOf(d2)
    /\ \A d \in ShardDescriptors : \A m \in MergedDescriptors : FileOf(d) # FileOf(m)

\* a step of persist_embeddings of worker w writes the file of its own
\* descriptor and leaves the file of every other descriptor as it was
PersistOwnsItsFile(w) ==
    (pc[w] = "embedded" /\ pc'[w] = "persisted") =>
        /\ FileOf(OwnDescriptor(w)) \in DOMAIN dir'
        /\ dir'[FileOf(OwnDescriptor(w))] = emb[w]
        /\ DOMAIN dir \subseteq DOMAIN dir'
        /\ \A d \in Descriptors \ {OwnDescriptor(w)} :
              /\ FileOf(d) \in DOMAIN dir <=> FileOf(d) \in DOMAIN dir'
              /\ FileOf(d) \in DOMAIN dir => dir'[FileOf(d)] = dir[FileOf(d)]

\* a step that removes a file is an iteration of the deletion loop of
\* merge_embeddings
OnlyMergeDeletes ==
    ~(DOMAIN dir \subseteq DOMAIN dir') =>
        \E w \in Workers :
            /\ pc[w] = "m_unlink"
            /\ DOMAIN dir' = DOMAIN dir \ {m_files[w][m_i[w]]}

\* C23: distinct shard descriptors (count # 0, names without underscores)
\* have distinct paths, all different from every merged path; a
\* persist_embeddings step creates or replaces only its own shard's file and
\* leaves every other shard file and merged artifact unchanged; only
\* merge_embeddings removes files.
C23_EachWriterOwnsItsFile ==
    [][ /\ DistinctPaths
        /\ \A w \in Workers : PersistOwnsItsFile(w)
        /\ OnlyMergeDeletes ]_vars

C23_Witness ==
    /\ K >= 2
    /\ pc[1] = "persisted"
    /\ ShardFile(0) \in DOMAIN dir
    /\ dir[ShardFile(0)] = ShardEmbedding(0)
    /\ ShardFile(1) \in DOMAIN dir
    /\ dir[ShardFile(1)] = ShardEmbedding(1)
    /\ MergedFile \in DOMAIN dir
    /\ dir[MergedFile] = ForeignTensor(Len(AllOtherRuns))
    /\ \A p \in 1 .. Len(OtherGroups(K)) :
          /\ ForeignFile(OtherGroups(K), p) \in DOMAIN dir
          /\ dir[ForeignFile(OtherGroups(K), p)] = ForeignTensor(p)

====
